---- MODULE Spec2Model ----
(***************************************************************************)
(* KSecureSystemResource (core/hle/kernel/k_system_resource.cpp): the      *)
(* secure system resource of the emulated kernel, its reservation against  *)
(* a shared KResourceLimit, the platform secure memory it owns and the     *)
(* three slab managers it publishes.  Initialize and Finalize are modelled *)
(* statement by statement, one action per step that touches the resource   *)
(* limit, the platform memory controller or the object, so that several    *)
(* objects sharing one limit interleave at the granularity of the limit's  *)
(* atomic operations.                                                      *)
(***************************************************************************)
EXTENDS Naturals, Integers, Sequences, FiniteSets

(* ------------------------------ bounds -------------------------------- *)

\* Sizes passed to Initialize are 1..MaxPages pages.
MaxPages == 3
\* The resource limit's maximum for PhysicalMemoryMax, in pages.
LimitPages == 5
\* Cap on the objects outstanding from one resource's managers.
MaxUsed == 1
\* Cap on the Execute and SelectionComplete calls followed after one
\* ProfileSelect::Initialize.
MaxCalls == 4
\* Cap on the callbacks a frontend holds without having invoked them.
MaxPending == 2
\* Objects the memory-block and block-info heaps slice out of one page.
SmallSlots == 2
\* Cap on the manager and page-manager operations followed on one resource.
MaxOps == 4

(* -------------------------- program constants ------------------------- *)

PageSize == 4096

\* sizeof(KPageTableManager::RefCount)
RefCountBytes == 2

\* The secure system resources, each in a kernel context of its own, that
\* share the resource limit.
Objects == {1, 2}

Sizes == {k * PageSize : k \in 1..MaxPages}

Pools == {0, 1}

LimitMax == LimitPages * PageSize

Managers == {"memory_block", "block_info", "page_table"}

PlatformErrors == {"ResultPlatformA", "ResultPlatformB"}

\* Addresses the platform memory controller hands out: one disjoint slot per
\* possible outstanding region, none of them 0.
Slots == {k * (MaxPages + 1) * PageSize : k \in Objects}

(* --------------------------- pure functions --------------------------- *)

AlignUp(value, align) == ((value + align - 1) \div align) * align

\* Allocation granule of a pool's secure memory.
SecureGranule(pool) == IF pool = 0 THEN PageSize ELSE 2 * PageSize

\* KSystemControl::CalculateRequiredSecureMemorySize: platform policy, may
\* inflate the size to the pool's granule.
CalculateRequiredSecureMemorySize(size, pool) == AlignUp(size, SecureGranule(pool))

\* KPageTableSlabHeap::CalculateReferenceCountSize: one counter per page.
CalculateReferenceCountSize(size) == (size \div PageSize) * RefCountBytes

\* rc_size of Initialize.
RcSize(size) == AlignUp(CalculateReferenceCountSize(size), PageSize)

(* ------------------------------- state -------------------------------- *)

VARIABLES
    ctx,                 \* the objects in use in this run
    initial,             \* amount other holders had committed at the start
    current,             \* resource limit: committed PhysicalMemoryMax
    refs,                \* resource limit: references opened and not closed
    secure,              \* platform: outstanding secure allocations
    aborted,             \* the failed assertion, once the process has died
    pc,                  \* per object: lifecycle state or position in a call
    m_resource_size,
    m_resource_pool,
    m_resource_address,
    m_resource_limit,    \* TRUE once the pointer has been stored
    m_is_initialized,
    managers_set,        \* SetManagers has published the three managers
    dpm,                 \* range given to m_dynamic_page_manager.Initialize
    reservation,         \* memory_reservation: its state and its amount
    result,              \* Result of the last Initialize call
    used,                \* GetUsed() of each manager
    log,                 \* calls made since the last Initialize began
    before,              \* the object's attributes when Initialize was called
                         \* (kept where one object is followed alone)
    page_manager,        \* per object: m_dynamic_page_manager
    client,              \* per object: pages held by direct users of it
    last_page,           \* per object: the last page request and its setting
    heaps,               \* per object and manager: the slab heap's slots
    held,                \* per object and manager: objects allocated
    alloc_count,         \* per object and manager: successful Allocates
    free_count,          \* per object and manager: Frees
    last_alloc,          \* per object: the last Allocate and its setting
    ps_state,            \* ProfileSelect: "constructed" or "initialized"
    complete,            \* ProfileSelect::complete
    status,              \* ProfileSelect::status
    final_data,          \* ProfileSelect::final_data
    profile_select_version,
    pending,             \* frontend: callbacks received and not yet invoked
    pushed,              \* broker: calls received since the last Initialize
    ps_calls             \* ProfileSelect: calls made since the last Initialize

vars == <<ctx, initial, current, refs, secure, aborted, pc, m_resource_size,
          m_resource_pool, m_resource_address, m_resource_limit,
          m_is_initialized, managers_set, dpm, reservation, result, used, log,
          before, page_manager, client, last_page, heaps, held, alloc_count,
          free_count, last_alloc, ps_state, complete, status, final_data,
          profile_select_version, pending, pushed, ps_calls>>

\* The state of the sub-allocators of the secure system resources.
allocVars == <<page_manager, client, last_page, heaps, held, alloc_count,
               free_count, last_alloc>>

\* The state of the secure system resources and of their collaborators.
kernelVars == <<ctx, initial, current, refs, secure, aborted, pc,
                m_resource_size, m_resource_pool, m_resource_address,
                m_resource_limit, m_is_initialized, managers_set, dpm,
                reservation, result, used, log, before, allocVars>>

\* The state of the profile selection applet and of its collaborators.
appletVars == <<ps_state, complete, status, final_data,
                profile_select_version, pending, pushed, ps_calls>>

\* The attributes of an object: the members lines 13-15, 26 and 72 assign
\* and the managers line 63 publishes.
Attributes(o) ==
    [size |-> m_resource_size[o], pool |-> m_resource_pool[o],
     limit |-> m_resource_limit[o], address |-> m_resource_address[o],
     initialized |-> m_is_initialized[o], managers |-> managers_set[o]]

NoAbort == [why |-> "none", by |-> 0]

\* memory_reservation when it does not exist or did not succeed.
NoReservation == [state |-> "none", value |-> 0]

\* Entries of log: the call, its memory arguments, its amount, its result.
Ev(op) ==
    [op |-> op, addr |-> 0, size |-> 0, pool |-> 0, amount |-> 0, err |-> ""]

EvMem(op, addr, size, pool) ==
    [Ev(op) EXCEPT !.addr = addr, !.size = size, !.pool = pool]

EvAmount(op, amount) == [Ev(op) EXCEPT !.amount = amount]

Running == aborted = NoAbort

\* this->CalculateRequiredSecureMemorySize(): the stored size and pool.
RequiredSecureMemorySize(o) ==
    CalculateRequiredSecureMemorySize(m_resource_size[o], m_resource_pool[o])

(* ------------------------ the sub-allocators -------------------------- *)

\* Objects a slab heap slices out of one page: a page-table object fills
\* its page, the records of the other two heaps share theirs.
SlotsPerPage(m) == IF m = "page_table" THEN 1 ELSE SmallSlots

ObjectSize(m) == PageSize \div SlotsPerPage(m)

\* KDynamicPageManager::Initialize(start, size, PageSize): nothing handed
\* out, the whole range an unused tail.
PageManagerInitialize(start, size) ==
    [start |-> start, size |-> size, next |-> start, free |-> <<>>,
     out |-> {}]

\* A page manager not yet given a range.
NoPageManager == PageManagerInitialize(0, 0)

\* Mutant: the unused tail is preferred over the free list.
PageManagerAllocateTailFirst(pm) ==
    IF pm.next < pm.start + pm.size
    THEN [page |-> pm.next,
          pm |-> [pm EXCEPT !.next = @ + PageSize, !.out = @ \cup {pm.next}]]
    ELSE IF pm.free # <<>>
    THEN [page |-> Head(pm.free),
          pm |-> [pm EXCEPT !.free = Tail(@), !.out = @ \cup {Head(pm.free)}]]
    ELSE [page |-> 0, pm |-> pm]

\* KDynamicPageManager::Allocate: a freed page if there is one, else the
\* next page of the unused tail, else none (page 0).
PageManagerAllocate(pm) ==
    IF pm.free # <<>>
    THEN [page |-> Head(pm.free),
          pm |-> [pm EXCEPT !.free = Tail(@), !.out = @ \cup {Head(pm.free)}]]
    ELSE IF pm.next < pm.start + pm.size
    THEN [page |-> pm.next,
          pm |-> [pm EXCEPT !.next = @ + PageSize, !.out = @ \cup {pm.next}]]
    ELSE [page |-> 0, pm |-> pm]

\* KDynamicPageManager::Free: the page goes onto the free list.
PageManagerFree(pm, page) ==
    [pm EXCEPT !.free = <<page>> \o @, !.out = @ \ {page}]

\* What a page request found, the head of the free list (0 when empty) and
\* the start of the unused tail, and the page it was given.
PageRequest(pm, page) ==
    [page |-> page, head |-> IF pm.free = <<>> THEN 0 ELSE Head(pm.free),
     next |-> pm.next]

NoPageRequest == PageRequest(NoPageManager, 0)

\* The slots a heap slices a new page into.
SlotsOf(m, page) ==
    [i \in 1..SlotsPerPage(m) |-> page + (i - 1) * ObjectSize(m)]

\* What an Allocate found: the heap's free slots, the page manager's free
\* list and tail pages and the used count before it, its result and the
\* used count after it.
AllocateRequest(m, slots, pm, before_used, res, after_used) ==
    [m |-> m, slots |-> slots, free |-> Len(pm.free),
     tail |-> (pm.start + pm.size - pm.next) \div PageSize,
     before |-> before_used, res |-> res, after |-> after_used]

NoAllocateRequest == AllocateRequest("", 0, NoPageManager, 0, "", 0)

InitObjects ==
    /\ page_manager = [o \in Objects |-> NoPageManager]
    /\ client = [o \in Objects |-> {}]
    /\ last_page = [o \in Objects |-> NoPageRequest]
    /\ heaps = [o \in Objects |-> [m \in Managers |-> <<>>]]
    /\ held = [o \in Objects |-> [m \in Managers |-> {}]]
    /\ alloc_count = [o \in Objects |-> [m \in Managers |-> 0]]
    /\ free_count = [o \in Objects |-> [m \in Managers |-> 0]]
    /\ last_alloc = [o \in Objects |-> NoAllocateRequest]
    /\ current = initial
    /\ refs = 0
    /\ secure = {}
    /\ aborted = NoAbort
    /\ pc = [o \in Objects |-> "fresh"]
    /\ m_resource_size = [o \in Objects |-> 0]
    /\ m_resource_pool = [o \in Objects |-> 0]
    /\ m_resource_address = [o \in Objects |-> 0]
    /\ m_resource_limit = [o \in Objects |-> FALSE]
    /\ m_is_initialized = [o \in Objects |-> FALSE]
    /\ managers_set = [o \in Objects |-> FALSE]
    /\ dpm = [o \in Objects |-> [addr |-> 0, size |-> 0]]
    /\ reservation = [o \in Objects |-> NoReservation]
    /\ result = [o \in Objects |-> "none"]
    /\ used = [o \in Objects |-> [m \in Managers |-> 0]]
    /\ log = [o \in Objects |-> <<>>]
    /\ before = [o \in Objects |-> Attributes(o)]

\* ProfileSelect as constructed: the default member initializers.
InitProfileSelect ==
    /\ ps_state = "constructed"
    /\ complete = FALSE
    /\ status = "ResultSuccess"
    /\ final_data = <<>>
    /\ profile_select_version = 0
    /\ pending = 0
    /\ pushed = <<>>
    /\ ps_calls = <<>>

\* Every object in use, nothing else committed against the limit.
Init ==
    /\ ctx = Objects
    /\ initial = 0
    /\ InitObjects
    /\ InitProfileSelect

\* One object in use; other holders of the limit have committed any number
\* of pages before it starts and do not move meanwhile.
InitSolo ==
    /\ ctx = {1}
    /\ initial \in {k * PageSize : k \in 0..LimitPages}
    /\ InitObjects
    /\ InitProfileSelect

(* ------------------------ the collaborators --------------------------- *)

\* KResourceLimit::Reserve: whether value more units fit under the maximum.
CanReserve(cur, value) == cur + value <= LimitMax

\* KSystemControl::FreeSecureMemory: the allocation with exactly these
\* arguments is returned to the platform.
FreeSecureMemory(mem, addr, size, pool) ==
    {a \in mem : ~(a.addr = addr /\ a.size = size /\ a.pool = pool)}

\* Slots no outstanding allocation occupies.
FreeSlots == {s \in Slots : \A a \in secure : a.addr # s}

TotalUsed(o) ==
    used[o]["memory_block"] + used[o]["block_info"] + used[o]["page_table"]

Append1(o, e) == [log EXCEPT ![o] = Append(@, e)]

(* ----------------------------- Initialize ----------------------------- *)

\* Lines 12-18: store the members, compute secure_size.
InitBegin(o, size, pool) ==
    /\ Running
    /\ pc[o] \in {"fresh", "failed"}
    /\ m_resource_limit' = [m_resource_limit EXCEPT ![o] = TRUE]
    /\ m_resource_size' = [m_resource_size EXCEPT ![o] = size]
    /\ m_resource_pool' = [m_resource_pool EXCEPT ![o] = pool]
    /\ result' = [result EXCEPT ![o] = "none"]
    /\ log' = [log EXCEPT ![o] = <<>>]
    /\ pc' = [pc EXCEPT ![o] = "i_reserve"]
    /\ before' = IF ctx = {o} THEN [before EXCEPT ![o] = Attributes(o)]
                 ELSE before
    /\ UNCHANGED <<allocVars, appletVars, ctx, initial, current, refs, secure,
                   aborted, m_resource_address, m_is_initialized, managers_set, dpm,
                   reservation, used>>

\* Mutant: the reservation is made without the limit's maximum being checked.
InitReserveOkUnchecked(o) ==
    /\ Running
    /\ pc[o] = "i_reserve"
    /\ current' = current + RequiredSecureMemorySize(o)
    /\ reservation' = [reservation EXCEPT ![o] =
                         [state |-> "provisional",
                          value |-> RequiredSecureMemorySize(o)]]
    /\ log' = Append1(o, EvAmount("Reserve", RequiredSecureMemorySize(o)))
    /\ pc' = [pc EXCEPT ![o] = "i_alloc"]
    /\ UNCHANGED <<allocVars, appletVars, before,
                   ctx, initial, refs, secure, aborted, m_resource_size,
                   m_resource_pool, m_resource_address, m_resource_limit,
                   m_is_initialized, managers_set, dpm, result, used>>

\* Lines 20-23, the reservation granted.
InitReserveOk(o) ==
    /\ Running
    /\ pc[o] = "i_reserve"
    /\ CanReserve(current, RequiredSecureMemorySize(o))
    /\ current' = current + RequiredSecureMemorySize(o)
    /\ reservation' = [reservation EXCEPT ![o] =
                         [state |-> "provisional",
                          value |-> RequiredSecureMemorySize(o)]]
    /\ log' = Append1(o, EvAmount("Reserve", RequiredSecureMemorySize(o)))
    /\ pc' = [pc EXCEPT ![o] = "i_alloc"]
    /\ UNCHANGED <<allocVars, appletVars, before,
                   ctx, initial, refs, secure, aborted, m_resource_size,
                   m_resource_pool, m_resource_address, m_resource_limit,
                   m_is_initialized, managers_set, dpm, result, used>>

\* Mutant: the refused reservation is not checked and Initialize goes on.
InitReserveFailUnchecked(o) ==
    /\ Running
    /\ pc[o] = "i_reserve"
    /\ ~CanReserve(current, RequiredSecureMemorySize(o))
    /\ log' = Append1(o, EvAmount("ReserveRefused", RequiredSecureMemorySize(o)))
    /\ pc' = [pc EXCEPT ![o] = "i_alloc"]
    /\ UNCHANGED <<allocVars, appletVars, before,
                   ctx, initial, current, refs, secure, aborted,
                   m_resource_size, m_resource_pool, m_resource_address,
                   m_resource_limit, m_is_initialized, managers_set, dpm,
                   reservation, result, used>>

\* Lines 20-23, the reservation refused: R_UNLESS returns ResultLimitReached.
InitReserveFail(o) ==
    /\ Running
    /\ pc[o] = "i_reserve"
    /\ ~CanReserve(current, RequiredSecureMemorySize(o))
    /\ result' = [result EXCEPT ![o] = "ResultLimitReached"]
    /\ log' = Append1(o, EvAmount("ReserveRefused", RequiredSecureMemorySize(o)))
    /\ pc' = [pc EXCEPT ![o] = "failed"]
    /\ UNCHANGED <<allocVars, appletVars, before,
                   ctx, initial, current, refs, secure, aborted,
                   m_resource_size, m_resource_pool, m_resource_address,
                   m_resource_limit, m_is_initialized, managers_set, dpm,
                   reservation, used>>

\* Lines 25-28, AllocateSecureMemory succeeds with a non-zero address.
InitAllocateOk(o, addr) ==
    /\ Running
    /\ pc[o] = "i_alloc"
    /\ addr \in FreeSlots
    /\ m_resource_address' = [m_resource_address EXCEPT ![o] = addr]
    /\ secure' = secure \cup {[addr |-> addr, size |-> m_resource_size[o],
                               pool |-> m_resource_pool[o], owner |-> o]}
    /\ log' = Append1(o, EvMem("AllocateSecureMemory", addr,
                               m_resource_size[o], m_resource_pool[o]))
    /\ pc' = [pc EXCEPT ![o] = "i_check"]
    /\ UNCHANGED <<allocVars, appletVars, before,
                   ctx, initial, current, refs, aborted, m_resource_size,
                   m_resource_pool, m_resource_limit, m_is_initialized,
                   managers_set, dpm, reservation, result, used>>

\* Mutant: address 0 is not asserted against and Initialize goes on.
InitAllocateZeroUnasserted(o) ==
    /\ Running
    /\ pc[o] = "i_alloc"
    /\ m_resource_address' = [m_resource_address EXCEPT ![o] = 0]
    /\ secure' = secure \cup {[addr |-> 0, size |-> m_resource_size[o],
                               pool |-> m_resource_pool[o], owner |-> o]}
    /\ log' = Append1(o, EvMem("AllocateSecureMemory", 0,
                               m_resource_size[o], m_resource_pool[o]))
    /\ pc' = [pc EXCEPT ![o] = "i_check"]
    /\ UNCHANGED <<allocVars, appletVars, before,
                   ctx, initial, current, refs, aborted, m_resource_size,
                   m_resource_pool, m_resource_limit, m_is_initialized,
                   managers_set, dpm, reservation, result, used>>

\* Lines 25-28, AllocateSecureMemory reports success with address 0: the
\* assertion fails.
InitAllocateZero(o) ==
    /\ Running
    /\ pc[o] = "i_alloc"
    /\ m_resource_address' = [m_resource_address EXCEPT ![o] = 0]
    /\ secure' = secure \cup {[addr |-> 0, size |-> m_resource_size[o],
                               pool |-> m_resource_pool[o], owner |-> o]}
    /\ log' = Append1(o, EvMem("AllocateSecureMemory", 0,
                               m_resource_size[o], m_resource_pool[o]))
    /\ aborted' = [why |-> "AddressZero", by |-> o]
    /\ UNCHANGED <<allocVars, appletVars, before,
                   ctx, initial, current, refs, pc, m_resource_size,
                   m_resource_pool, m_resource_limit, m_is_initialized,
                   managers_set, dpm, reservation, result, used>>

\* Mutant: the platform's failure is replaced by ResultOutOfMemory.
InitAllocateFailRemapped(o, err) ==
    /\ Running
    /\ pc[o] = "i_alloc"
    /\ result' = [result EXCEPT ![o] = "ResultOutOfMemory"]
    /\ log' = Append1(o, [Ev("AllocateSecureMemoryFailed") EXCEPT
                            !.size = m_resource_size[o],
                            !.pool = m_resource_pool[o],
                            !.err = err])
    /\ pc' = [pc EXCEPT ![o] = "i_rollback"]
    /\ UNCHANGED <<allocVars, appletVars, before,
                   ctx, initial, current, refs, secure, aborted,
                   m_resource_size, m_resource_pool, m_resource_address,
                   m_resource_limit, m_is_initialized, managers_set, dpm,
                   reservation, used>>

\* Lines 25-27, AllocateSecureMemory fails: R_TRY returns its result.
InitAllocateFail(o, err) ==
    /\ Running
    /\ pc[o] = "i_alloc"
    /\ result' = [result EXCEPT ![o] = err]
    /\ log' = Append1(o, [Ev("AllocateSecureMemoryFailed") EXCEPT
                            !.size = m_resource_size[o],
                            !.pool = m_resource_pool[o],
                            !.err = err])
    /\ pc' = [pc EXCEPT ![o] = "i_rollback"]
    /\ UNCHANGED <<allocVars, appletVars, before,
                   ctx, initial, current, refs, secure, aborted,
                   m_resource_size, m_resource_pool, m_resource_address,
                   m_resource_limit, m_is_initialized, managers_set, dpm,
                   reservation, used>>

\* Mutant: a region exactly as large as its table is let through.
RegionHoldsTableOrEqual(size) == size >= RcSize(size)

\* Lines 36-39, the region against its reference-count table.
RegionHoldsTable(size) == size > RcSize(size)

\* Mutant: the region is checked against its table only after the managers
\* have been published.
InitCheckRcAfterPublish(o) ==
    /\ Running
    /\ pc[o] = "i_check"
    /\ IF RegionHoldsTable(m_resource_size[o])
       THEN /\ pc' = [pc EXCEPT ![o] = "i_dpm"]
            /\ UNCHANGED <<result, managers_set>>
       ELSE /\ pc' = [pc EXCEPT ![o] = "i_free"]
            /\ managers_set' = [managers_set EXCEPT ![o] = TRUE]
            /\ result' = [result EXCEPT ![o] = "ResultOutOfMemory"]
    /\ UNCHANGED <<allocVars, appletVars, before,
                   ctx, initial, current, refs, secure, aborted,
                   m_resource_size, m_resource_pool, m_resource_address,
                   m_resource_limit, m_is_initialized, dpm,
                   reservation, used, log>>

InitCheckRc(o) ==
    /\ Running
    /\ pc[o] = "i_check"
    /\ IF RegionHoldsTable(m_resource_size[o])
       THEN /\ pc' = [pc EXCEPT ![o] = "i_dpm"]
            /\ UNCHANGED result
       ELSE /\ pc' = [pc EXCEPT ![o] = "i_free"]
            /\ result' = [result EXCEPT ![o] = "ResultOutOfMemory"]
    /\ UNCHANGED <<allocVars, appletVars, before,
                   ctx, initial, current, refs, secure, aborted,
                   m_resource_size, m_resource_pool, m_resource_address,
                   m_resource_limit, m_is_initialized, managers_set, dpm,
                   reservation, used, log>>

\* Mutant: the ON_RESULT_FAILURE block is missing.
InitCleanupFreeMissing(o) ==
    /\ Running
    /\ pc[o] = "i_free"
    /\ pc' = [pc EXCEPT ![o] = "i_rollback"]
    /\ UNCHANGED <<allocVars, appletVars, before,
                   ctx, initial, current, refs, secure, aborted,
                   m_resource_size, m_resource_pool, m_resource_address,
                   m_resource_limit, m_is_initialized, managers_set, dpm,
                   reservation, result, used, log>>

\* Mutant: the cleanup frees secure_size bytes, not the size allocated.
InitCleanupFreeSecureSize(o) ==
    /\ Running
    /\ pc[o] = "i_free"
    /\ secure' = FreeSecureMemory(secure, m_resource_address[o],
                                  RequiredSecureMemorySize(o), m_resource_pool[o])
    /\ log' = Append1(o, EvMem("FreeSecureMemory", m_resource_address[o],
                               RequiredSecureMemorySize(o), m_resource_pool[o]))
    /\ pc' = [pc EXCEPT ![o] = "i_rollback"]
    /\ UNCHANGED <<allocVars, appletVars, before,
                   ctx, initial, current, refs, aborted, m_resource_size,
                   m_resource_pool, m_resource_address, m_resource_limit,
                   m_is_initialized, managers_set, dpm, reservation, result,
                   used>>

\* Lines 30-34, the ON_RESULT_FAILURE block on a failure exit.
InitCleanupFree(o) ==
    /\ Running
    /\ pc[o] = "i_free"
    /\ secure' = FreeSecureMemory(secure, m_resource_address[o],
                                  m_resource_size[o], m_resource_pool[o])
    /\ log' = Append1(o, EvMem("FreeSecureMemory", m_resource_address[o],
                               m_resource_size[o], m_resource_pool[o]))
    /\ pc' = [pc EXCEPT ![o] = "i_rollback"]
    /\ UNCHANGED <<allocVars, appletVars, before,
                   ctx, initial, current, refs, aborted, m_resource_size,
                   m_resource_pool, m_resource_address, m_resource_limit,
                   m_is_initialized, managers_set, dpm, reservation, result,
                   used>>

\* Lines 21-22 at a failure exit: memory_reservation goes out of scope
\* uncommitted and gives its amount back.
InitCleanupRollback(o) ==
    /\ Running
    /\ pc[o] = "i_rollback"
    /\ IF reservation[o].state = "provisional"
       THEN /\ current' = current - reservation[o].value
            /\ log' = Append1(o, EvAmount("Rollback", reservation[o].value))
       ELSE UNCHANGED <<current, log>>
    /\ reservation' = [reservation EXCEPT ![o] = NoReservation]
    /\ pc' = [pc EXCEPT ![o] = "failed"]
    /\ UNCHANGED <<allocVars, appletVars, before,
                   ctx, initial, refs, secure, aborted, m_resource_size,
                   m_resource_pool, m_resource_address, m_resource_limit,
                   m_is_initialized, managers_set, dpm, result, used>>

\* Mutant: the dynamic page manager is given the whole region, table included.
InitDynamicPageManagerWholeRegion(o) ==
    /\ Running
    /\ pc[o] = "i_dpm"
    /\ dpm' = [dpm EXCEPT ![o] =
                 [addr |-> m_resource_address[o], size |-> m_resource_size[o]]]
    /\ log' = Append1(o, Ev("DynamicPageManagerInitialize"))
    /\ pc' = [pc EXCEPT ![o] = "i_heaps"]
    /\ page_manager' = [page_manager EXCEPT ![o] =
           PageManagerInitialize(m_resource_address[o], m_resource_size[o])]
    /\ client' = [client EXCEPT ![o] = {}]
    /\ last_page' = [last_page EXCEPT ![o] = NoPageRequest]
    /\ UNCHANGED <<heaps, held, alloc_count, free_count, last_alloc,
                   appletVars, before, ctx, initial, current, refs, secure, aborted,
                   m_resource_size, m_resource_pool, m_resource_address,
                   m_resource_limit, m_is_initialized, managers_set,
                   reservation, result, used>>

\* Mutant: the reservation is committed before the sub-allocators are laid
\* out, Commit and the dynamic page manager's Initialize swapped.
InitDynamicPageManagerCommitsFirst(o) ==
    /\ Running
    /\ pc[o] = "i_dpm"
    /\ reservation' = [reservation EXCEPT ![o].state = "committed"]
    /\ dpm' = [dpm EXCEPT ![o] =
                 [addr |-> m_resource_address[o] + RcSize(m_resource_size[o]),
                  size |-> m_resource_size[o] - RcSize(m_resource_size[o])]]
    /\ log' = [log EXCEPT ![o] =
                 Append(Append(@, EvAmount("Commit", reservation[o].value)),
                        Ev("DynamicPageManagerInitialize"))]
    /\ pc' = [pc EXCEPT ![o] = "i_heaps"]
    /\ page_manager' = [page_manager EXCEPT ![o] =
           PageManagerInitialize(
               m_resource_address[o] + RcSize(m_resource_size[o]),
               m_resource_size[o] - RcSize(m_resource_size[o]))]
    /\ client' = [client EXCEPT ![o] = {}]
    /\ last_page' = [last_page EXCEPT ![o] = NoPageRequest]
    /\ UNCHANGED <<heaps, held, alloc_count, free_count, last_alloc,
                   appletVars, before, ctx, initial, current, refs, secure, aborted,
                   m_resource_size, m_resource_pool, m_resource_address,
                   m_resource_limit, m_is_initialized, managers_set,
                   result, used>>

\* Lines 47-49.
InitDynamicPageManager(o) ==
    /\ Running
    /\ pc[o] = "i_dpm"
    /\ dpm' = [dpm EXCEPT ![o] =
                 [addr |-> m_resource_address[o] + RcSize(m_resource_size[o]),
                  size |-> m_resource_size[o] - RcSize(m_resource_size[o])]]
    /\ log' = Append1(o, Ev("DynamicPageManagerInitialize"))
    /\ pc' = [pc EXCEPT ![o] = "i_heaps"]
    /\ page_manager' = [page_manager EXCEPT ![o] =
           PageManagerInitialize(
               m_resource_address[o] + RcSize(m_resource_size[o]),
               m_resource_size[o] - RcSize(m_resource_size[o]))]
    /\ client' = [client EXCEPT ![o] = {}]
    /\ last_page' = [last_page EXCEPT ![o] = NoPageRequest]
    /\ UNCHANGED <<heaps, held, alloc_count, free_count, last_alloc,
                   appletVars, before, ctx, initial, current, refs, secure, aborted,
                   m_resource_size, m_resource_pool, m_resource_address,
                   m_resource_limit, m_is_initialized, managers_set,
                   reservation, result, used>>

\* Lines 50-52.
InitSlabHeaps(o) ==
    /\ Running
    /\ pc[o] = "i_heaps"
    /\ log' = Append1(o, Ev("SlabHeapsInitialize"))
    /\ pc' = [pc EXCEPT ![o] = "i_managers"]
    /\ heaps' = [heaps EXCEPT ![o] = [m \in Managers |-> <<>>]]
    /\ UNCHANGED <<page_manager, client, last_page, held, alloc_count,
                   free_count, last_alloc, appletVars, before, ctx, initial, current, refs, secure, aborted,
                   m_resource_size, m_resource_pool, m_resource_address,
                   m_resource_limit, m_is_initialized, managers_set, dpm,
                   reservation, result, used>>

\* Lines 54-60.
InitManagers(o) ==
    /\ Running
    /\ pc[o] = "i_managers"
    /\ used' = [used EXCEPT ![o] = [m \in Managers |-> 0]]
    /\ log' = Append1(o, Ev("ManagersInitialize"))
    /\ pc' = [pc EXCEPT ![o] = "i_publish"]
    /\ held' = [held EXCEPT ![o] = [m \in Managers |-> {}]]
    /\ alloc_count' = [alloc_count EXCEPT ![o] = [m \in Managers |-> 0]]
    /\ free_count' = [free_count EXCEPT ![o] = [m \in Managers |-> 0]]
    /\ last_alloc' = [last_alloc EXCEPT ![o] = NoAllocateRequest]
    /\ UNCHANGED <<page_manager, client, last_page, heaps,
                   appletVars, before, ctx, initial, current, refs, secure, aborted,
                   m_resource_size, m_resource_pool, m_resource_address,
                   m_resource_limit, m_is_initialized, managers_set, dpm,
                   reservation, result>>

\* Lines 62-63.
InitSetManagers(o) ==
    /\ Running
    /\ pc[o] = "i_publish"
    /\ managers_set' = [managers_set EXCEPT ![o] = TRUE]
    /\ log' = Append1(o, Ev("SetManagers"))
    /\ pc' = [pc EXCEPT ![o] = "i_commit"]
    /\ UNCHANGED <<allocVars, appletVars, before,
                   ctx, initial, current, refs, secure, aborted,
                   m_resource_size, m_resource_pool, m_resource_address,
                   m_resource_limit, m_is_initialized, dpm, reservation,
                   result, used>>

\* Mutant: the Commit call is missing.
InitCommitMissing(o) ==
    /\ Running
    /\ pc[o] = "i_commit"
    /\ pc' = [pc EXCEPT ![o] = "i_open"]
    /\ UNCHANGED <<allocVars, appletVars, before,
                   ctx, initial, current, refs, secure, aborted,
                   m_resource_size, m_resource_pool, m_resource_address,
                   m_resource_limit, m_is_initialized, managers_set, dpm,
                   reservation, result, used, log>>

\* Lines 65-66.
InitCommit(o) ==
    /\ Running
    /\ pc[o] = "i_commit"
    /\ reservation' = [reservation EXCEPT ![o].state = "committed"]
    /\ log' = Append1(o, EvAmount("Commit", reservation[o].value))
    /\ pc' = [pc EXCEPT ![o] = "i_open"]
    /\ UNCHANGED <<allocVars, appletVars, before,
                   ctx, initial, current, refs, secure, aborted,
                   m_resource_size, m_resource_pool, m_resource_address,
                   m_resource_limit, m_is_initialized, managers_set, dpm,
                   result, used>>

\* Lines 68-69.
InitOpen(o) ==
    /\ Running
    /\ pc[o] = "i_open"
    /\ refs' = refs + 1
    /\ log' = Append1(o, Ev("Open"))
    /\ pc' = [pc EXCEPT ![o] = "i_done"]
    /\ UNCHANGED <<allocVars, appletVars, before,
                   ctx, initial, current, secure, aborted, m_resource_size,
                   m_resource_pool, m_resource_address, m_resource_limit,
                   m_is_initialized, managers_set, dpm, reservation, result,
                   used>>

\* Lines 71-75: set initialized, R_SUCCEED; the committed memory_reservation
\* goes out of scope without effect.
InitSucceed(o) ==
    /\ Running
    /\ pc[o] = "i_done"
    /\ m_is_initialized' = [m_is_initialized EXCEPT ![o] = TRUE]
    /\ result' = [result EXCEPT ![o] = "ResultSuccess"]
    /\ IF reservation[o].state = "provisional"
       THEN /\ current' = current - reservation[o].value
            /\ log' = [log EXCEPT ![o] =
                         Append(Append(@, Ev("SetInitialized")),
                                EvAmount("Rollback", reservation[o].value))]
       ELSE /\ UNCHANGED current
            /\ log' = Append1(o, Ev("SetInitialized"))
    /\ reservation' = [reservation EXCEPT ![o] = NoReservation]
    /\ pc' = [pc EXCEPT ![o] = "ready"]
    /\ UNCHANGED <<allocVars, appletVars, before,
                   ctx, initial, refs, secure, aborted, m_resource_size,
                   m_resource_pool, m_resource_address, m_resource_limit,
                   managers_set, dpm, used>>

(* --------------------------- slab managers ---------------------------- *)

\* Allocate on one of the published managers.
ManagerAllocate(o, m) ==
    /\ Running
    /\ pc[o] = "ready"
    /\ managers_set[o]
    /\ TotalUsed(o) < MaxUsed
    /\ used' = [used EXCEPT ![o][m] = @ + 1]
    /\ UNCHANGED <<allocVars, appletVars, before,
                   ctx, initial, current, refs, secure, aborted, pc,
                   m_resource_size, m_resource_pool, m_resource_address,
                   m_resource_limit, m_is_initialized, managers_set, dpm,
                   reservation, result, log>>

\* Free on one of the published managers.
ManagerFree(o, m) ==
    /\ Running
    /\ pc[o] = "ready"
    /\ used[o][m] > 0
    /\ used' = [used EXCEPT ![o][m] = @ - 1]
    /\ UNCHANGED <<allocVars, appletVars, before,
                   ctx, initial, current, refs, secure, aborted, pc,
                   m_resource_size, m_resource_pool, m_resource_address,
                   m_resource_limit, m_is_initialized, managers_set, dpm,
                   reservation, result, log>>

\* Allocates and Frees made on the managers of o since they were
\* initialized.
RECURSIVE SumOver(_, _)
SumOver(f, S) ==
    IF S = {} THEN 0
    ELSE LET m == CHOOSE x \in S : TRUE IN f[m] + SumOver(f, S \ {m})

ManagerOps(o) == SumOver(alloc_count[o], Managers) + SumOver(free_count[o], Managers)

\* Mutant: a failed Allocate is counted as used.
SlabAllocateCountsFailure(o, m) ==
    /\ Running
    /\ pc[o] = "ready"
    /\ managers_set[o]
    /\ ManagerOps(o) < MaxOps
    /\ LET pm == page_manager[o]
           grown == PageManagerAllocate(pm)
           slots == IF heaps[o][m] # <<>> THEN heaps[o][m]
                    ELSE IF grown.page # 0 THEN SlotsOf(m, grown.page)
                    ELSE <<>>
       IN  /\ IF heaps[o][m] # <<>>
              THEN UNCHANGED <<page_manager, last_page>>
              ELSE /\ page_manager' = [page_manager EXCEPT ![o] = grown.pm]
                   /\ last_page' = [last_page EXCEPT ![o] =
                                       PageRequest(pm, grown.page)]
           /\ IF slots # <<>>
              THEN /\ heaps' = [heaps EXCEPT ![o][m] = Tail(slots)]
                   /\ held' = [held EXCEPT ![o][m] = @ \cup {Head(slots)}]
                   /\ used' = [used EXCEPT ![o][m] = @ + 1]
                   /\ alloc_count' = [alloc_count EXCEPT ![o][m] = @ + 1]
                   /\ last_alloc' = [last_alloc EXCEPT ![o] =
                          AllocateRequest(m, Len(heaps[o][m]), pm, used[o][m],
                                          "ResultSuccess", used[o][m] + 1)]
              ELSE /\ last_alloc' = [last_alloc EXCEPT ![o] =
                          AllocateRequest(m, Len(heaps[o][m]), pm, used[o][m],
                                          "ResultOutOfMemory", used[o][m] + 1)]
                   /\ used' = [used EXCEPT ![o][m] = @ + 1]
                   /\ UNCHANGED <<heaps, held, alloc_count>>
    /\ UNCHANGED <<appletVars, before, ctx, initial, current, refs, secure,
                   aborted, pc, m_resource_size, m_resource_pool,
                   m_resource_address, m_resource_limit, m_is_initialized,
                   managers_set, dpm, reservation, result, log, client,
                   free_count>>

\* Allocate on one of the published managers: a free slot of its heap, the
\* heap growing by one page of the page manager when it has none;
\* OutOfMemory, nothing changed, when the page manager has no page.
SlabAllocate(o, m) ==
    /\ Running
    /\ pc[o] = "ready"
    /\ managers_set[o]
    /\ ManagerOps(o) < MaxOps
    /\ LET pm == page_manager[o]
           grown == PageManagerAllocate(pm)
           slots == IF heaps[o][m] # <<>> THEN heaps[o][m]
                    ELSE IF grown.page # 0 THEN SlotsOf(m, grown.page)
                    ELSE <<>>
       IN  /\ IF heaps[o][m] # <<>>
              THEN UNCHANGED <<page_manager, last_page>>
              ELSE /\ page_manager' = [page_manager EXCEPT ![o] = grown.pm]
                   /\ last_page' = [last_page EXCEPT ![o] =
                                       PageRequest(pm, grown.page)]
           /\ IF slots # <<>>
              THEN /\ heaps' = [heaps EXCEPT ![o][m] = Tail(slots)]
                   /\ held' = [held EXCEPT ![o][m] = @ \cup {Head(slots)}]
                   /\ used' = [used EXCEPT ![o][m] = @ + 1]
                   /\ alloc_count' = [alloc_count EXCEPT ![o][m] = @ + 1]
                   /\ last_alloc' = [last_alloc EXCEPT ![o] =
                          AllocateRequest(m, Len(heaps[o][m]), pm, used[o][m],
                                          "ResultSuccess", used[o][m] + 1)]
              ELSE /\ last_alloc' = [last_alloc EXCEPT ![o] =
                          AllocateRequest(m, Len(heaps[o][m]), pm, used[o][m],
                                          "ResultOutOfMemory", used[o][m])]
                   /\ used' = used
                   /\ UNCHANGED <<heaps, held, alloc_count>>
    /\ UNCHANGED <<appletVars, before, ctx, initial, current, refs, secure,
                   aborted, pc, m_resource_size, m_resource_pool,
                   m_resource_address, m_resource_limit, m_is_initialized,
                   managers_set, dpm, reservation, result, log, client,
                   free_count>>

\* Free on one of the published managers: the object's slot goes back to
\* its heap.
SlabFree(o, m, slot) ==
    /\ Running
    /\ pc[o] = "ready"
    /\ ManagerOps(o) < MaxOps
    /\ slot \in held[o][m]
    /\ heaps' = [heaps EXCEPT ![o][m] = <<slot>> \o @]
    /\ held' = [held EXCEPT ![o][m] = @ \ {slot}]
    /\ used' = [used EXCEPT ![o][m] = @ - 1]
    /\ free_count' = [free_count EXCEPT ![o][m] = @ + 1]
    /\ UNCHANGED <<appletVars, before, ctx, initial, current, refs, secure,
                   aborted, pc, m_resource_size, m_resource_pool,
                   m_resource_address, m_resource_limit, m_is_initialized,
                   managers_set, dpm, reservation, result, log, page_manager,
                   client, last_page, alloc_count, last_alloc>>

\* A page taken from the page manager by a user other than the heaps.
PageAllocate(o) ==
    /\ Running
    /\ pc[o] = "ready"
    /\ LET pm == page_manager[o]
           got == PageManagerAllocate(pm)
       IN  /\ page_manager' = [page_manager EXCEPT ![o] = got.pm]
           /\ last_page' = [last_page EXCEPT ![o] = PageRequest(pm, got.page)]
           /\ client' = [client EXCEPT ![o] =
                            IF got.page # 0 THEN @ \cup {got.page} ELSE @]
    /\ UNCHANGED <<appletVars, before, ctx, initial, current, refs, secure,
                   aborted, pc, m_resource_size, m_resource_pool,
                   m_resource_address, m_resource_limit, m_is_initialized,
                   managers_set, dpm, reservation, result, log, used, heaps,
                   held, alloc_count, free_count, last_alloc>>

\* Such a page given back.
PageFree(o, page) ==
    /\ Running
    /\ pc[o] = "ready"
    /\ page \in client[o]
    /\ page_manager' = [page_manager EXCEPT ![o] = PageManagerFree(@, page)]
    /\ client' = [client EXCEPT ![o] = @ \ {page}]
    /\ UNCHANGED <<appletVars, before, ctx, initial, current, refs, secure,
                   aborted, pc, m_resource_size, m_resource_pool,
                   m_resource_address, m_resource_limit, m_is_initialized,
                   managers_set, dpm, reservation, result, log, used, heaps,
                   held, alloc_count, free_count, last_alloc, last_page>>

(* ------------------------------ Finalize ------------------------------ *)

\* Mutant: the page-table manager is not asserted.
NoOutstandingAllocationsButPageTable(o) ==
    /\ used[o]["memory_block"] = 0
    /\ used[o]["block_info"] = 0

\* Lines 78-81: the three assertions.
NoOutstandingAllocations(o) ==
    /\ used[o]["memory_block"] = 0
    /\ used[o]["block_info"] = 0
    /\ used[o]["page_table"] = 0

\* Line 77, Finalize is entered: the attributes it finds.
EvFinalize(o) ==
    [EvMem("Finalize", m_resource_address[o], m_resource_size[o],
           m_resource_pool[o])
       EXCEPT !.err = IF m_is_initialized[o] THEN "initialized"
                      ELSE "uninitialized"]

\* Lines 77-81, the assertions hold.
FinalizeBegin(o) ==
    /\ Running
    /\ pc[o] = "ready"
    /\ NoOutstandingAllocations(o)
    /\ log' = Append1(o, EvFinalize(o))
    /\ pc' = [pc EXCEPT ![o] = "f_free"]
    /\ UNCHANGED <<allocVars, appletVars, before,
                   ctx, initial, current, refs, secure, aborted,
                   m_resource_size, m_resource_pool, m_resource_address,
                   m_resource_limit, m_is_initialized, managers_set, dpm,
                   reservation, result, used>>

\* Mutant: Finalize returns at once on an object that is not initialized.
FinalizeUninitializedChecked(o) ==
    /\ Running
    /\ pc[o] = "failed"
    /\ NoOutstandingAllocations(o)
    /\ log' = Append1(o, EvFinalize(o))
    /\ UNCHANGED <<allocVars, appletVars, before,
                   ctx, initial, current, refs, secure, aborted, pc,
                   m_resource_size, m_resource_pool, m_resource_address,
                   m_resource_limit, m_is_initialized, managers_set, dpm,
                   reservation, result, used>>

\* Lines 77-81 on an object whose Initialize failed, against Finalize's
\* precondition: no line of Finalize reads m_is_initialized, and the
\* managers, never initialized, report nothing in use.
FinalizeUninitialized(o) ==
    /\ Running
    /\ pc[o] = "failed"
    /\ NoOutstandingAllocations(o)
    /\ log' = Append1(o, EvFinalize(o))
    /\ pc' = [pc EXCEPT ![o] = "f_free"]
    /\ UNCHANGED <<allocVars, appletVars, before,
                   ctx, initial, current, refs, secure, aborted,
                   m_resource_size, m_resource_pool, m_resource_address,
                   m_resource_limit, m_is_initialized, managers_set, dpm,
                   reservation, result, used>>

\* Lines 77-81, an assertion fails.
FinalizeAbort(o) ==
    /\ Running
    /\ pc[o] = "ready"
    /\ ~NoOutstandingAllocations(o)
    /\ log' = Append1(o, EvFinalize(o))
    /\ aborted' = [why |-> "OutstandingAllocations", by |-> o]
    /\ UNCHANGED <<allocVars, appletVars, before,
                   ctx, initial, current, refs, secure, pc, m_resource_size,
                   m_resource_pool, m_resource_address, m_resource_limit,
                   m_is_initialized, managers_set, dpm, reservation, result,
                   used>>

\* Lines 83-85.
FinalizeFree(o) ==
    /\ Running
    /\ pc[o] = "f_free"
    /\ secure' = FreeSecureMemory(secure, m_resource_address[o],
                                  m_resource_size[o], m_resource_pool[o])
    /\ log' = Append1(o, EvMem("FreeSecureMemory", m_resource_address[o],
                               m_resource_size[o], m_resource_pool[o]))
    /\ pc' = [pc EXCEPT ![o] = "f_release"]
    /\ UNCHANGED <<allocVars, appletVars, before,
                   ctx, initial, current, refs, aborted, m_resource_size,
                   m_resource_pool, m_resource_address, m_resource_limit,
                   m_is_initialized, managers_set, dpm, reservation, result,
                   used>>

\* Mutant: Finalize gives back the raw size, not secure_size.
ReleaseAmountRawSize(o) == m_resource_size[o]

\* Lines 87-89: the amount Finalize gives back.
ReleaseAmount(o) == RequiredSecureMemorySize(o)

FinalizeRelease(o) ==
    /\ Running
    /\ pc[o] = "f_release"
    /\ current' = current - ReleaseAmount(o)
    /\ log' = Append1(o, EvAmount("Release", ReleaseAmount(o)))
    /\ pc' = [pc EXCEPT ![o] = "f_close"]
    /\ UNCHANGED <<allocVars, appletVars, before,
                   ctx, initial, refs, secure, aborted, m_resource_size,
                   m_resource_pool, m_resource_address, m_resource_limit,
                   m_is_initialized, managers_set, dpm, reservation, result,
                   used>>

\* Mutant: Finalize does not close its reference.
FinalizeCloseMissing(o) ==
    /\ Running
    /\ pc[o] = "f_close"
    /\ pc' = [pc EXCEPT ![o] = "finalized"]
    /\ UNCHANGED <<allocVars, appletVars, before,
                   ctx, initial, current, refs, secure, aborted,
                   m_resource_size, m_resource_pool, m_resource_address,
                   m_resource_limit, m_is_initialized, managers_set, dpm,
                   reservation, result, used, log>>

\* Lines 91-93.
FinalizeClose(o) ==
    /\ Running
    /\ pc[o] = "f_close"
    /\ refs' = refs - 1
    /\ log' = Append1(o, Ev("Close"))
    /\ pc' = [pc EXCEPT ![o] = "finalized"]
    /\ UNCHANGED <<allocVars, appletVars, before,
                   ctx, initial, current, secure, aborted, m_resource_size,
                   m_resource_pool, m_resource_address, m_resource_limit,
                   m_is_initialized, managers_set, dpm, reservation, result,
                   used>>

(* --------------------------- ProfileSelect ---------------------------- *)

\* Common::InvalidUUID, and the uuids a frontend may hand to its callback:
\* none, the invalid one, or a valid one.
InvalidUUID == 0

Uuids == {InvalidUUID, 1, 2}

OptionalUuids ==
    {[has_value |-> FALSE, value |-> InvalidUUID]}
        \cup {[has_value |-> TRUE, value |-> u] : u \in Uuids}

\* Common::UUID::IsValid.
IsValid(uuid) == uuid # InvalidUUID

\* ProfileSelectAppletVersion, from common_args.library_version.
Versions == {1, 2, 3}

\* The purposes a Version2 or Version3 config may carry.
Purposes == {"General", "GameCardRegistration"}

\* UiReturnArg as the bytes copied into final_data.
UiReturnArg(res, uuid) == <<[result |-> res, uuid_selected |-> uuid]>>

\* Calls the broker receives.
PushNormalDataFromApplet(data) ==
    [op |-> "PushNormalDataFromApplet", data |-> data]

SignalStateChanged == [op |-> "SignalStateChanged", data |-> <<>>]

\* Entries of ps_calls.
PsCall(op, path, purpose, uuid) ==
    [op |-> op, path |-> path, purpose |-> purpose, uuid |-> uuid]

NoUuid == [has_value |-> FALSE, value |-> InvalidUUID]

\* Lines 22-51.
PsInitialize(version) ==
    /\ complete' = FALSE
    /\ status' = "ResultSuccess"
    /\ final_data' = <<>>
    /\ profile_select_version' = version
    /\ ps_state' = "initialized"
    /\ pushed' = <<>>
    /\ ps_calls' = <<>>
    /\ UNCHANGED <<kernelVars, pending>>

\* Lines 53-55.
TransactionComplete == complete

\* Lines 57-59.
GetStatus == status

\* Lines 65-98.
PsExecute(purpose) ==
    /\ ps_state = "initialized"
    /\ Len(ps_calls) < MaxCalls
    /\ IF complete
       THEN /\ pushed' = Append(pushed, PushNormalDataFromApplet(final_data))
            /\ final_data' = <<>>
            /\ ps_calls' = Append(ps_calls,
                   PsCall("Execute", "Repush", "", NoUuid))
            /\ UNCHANGED pending
       ELSE /\ pending < MaxPending
            /\ pending' = pending + 1
            /\ ps_calls' = Append(ps_calls,
                   PsCall("Execute", "SelectProfile",
                          IF profile_select_version = 1 THEN "General"
                          ELSE purpose, NoUuid))
            /\ UNCHANGED <<pushed, final_data>>
    /\ UNCHANGED <<kernelVars, ps_state, complete, status,
                   profile_select_version>>

\* Mutant: the state change is signalled before the storage is pushed.
PsSelectionCompleteSignalFirst(uuid) ==
    /\ ps_state = "initialized"
    /\ Len(ps_calls) < MaxCalls
    /\ pending > 0
    /\ pending' = pending - 1
    /\ LET ok == uuid.has_value /\ IsValid(uuid.value)
           output == IF ok THEN UiReturnArg("0", uuid.value)
                     ELSE UiReturnArg("ResultCancelledByUser", InvalidUUID)
       IN  /\ status' = IF ok THEN status ELSE "ResultCancelledByUser"
           /\ pushed' = pushed \o <<SignalStateChanged,
                                    PushNormalDataFromApplet(output)>>
    /\ final_data' = <<>>
    /\ ps_calls' = Append(ps_calls, PsCall("SelectionComplete", "", "", uuid))
    /\ UNCHANGED <<kernelVars, ps_state, complete, profile_select_version>>

\* Mutant: a delivered selection completes the transaction.
PsSelectionCompleteSetsComplete(uuid) ==
    /\ ps_state = "initialized"
    /\ Len(ps_calls) < MaxCalls
    /\ pending > 0
    /\ pending' = pending - 1
    /\ LET ok == uuid.has_value /\ IsValid(uuid.value)
           output == IF ok THEN UiReturnArg("0", uuid.value)
                     ELSE UiReturnArg("ResultCancelledByUser", InvalidUUID)
       IN  /\ status' = IF ok THEN status ELSE "ResultCancelledByUser"
           /\ pushed' = pushed \o <<PushNormalDataFromApplet(output),
                                    SignalStateChanged>>
    /\ final_data' = <<>>
    /\ complete' = TRUE
    /\ ps_calls' = Append(ps_calls, PsCall("SelectionComplete", "", "", uuid))
    /\ UNCHANGED <<kernelVars, ps_state, profile_select_version>>

\* Lines 100-116, the callback the frontend was given by Execute. final_data
\* is moved into the storage (line 114) and left empty.
PsSelectionComplete(uuid) ==
    /\ ps_state = "initialized"
    /\ Len(ps_calls) < MaxCalls
    /\ pending > 0
    /\ pending' = pending - 1
    /\ LET ok == uuid.has_value /\ IsValid(uuid.value)
           output == IF ok THEN UiReturnArg("0", uuid.value)
                     ELSE UiReturnArg("ResultCancelledByUser", InvalidUUID)
       IN  /\ status' = IF ok THEN status ELSE "ResultCancelledByUser"
           /\ pushed' = pushed \o <<PushNormalDataFromApplet(output),
                                    SignalStateChanged>>
    /\ final_data' = <<>>
    /\ ps_calls' = Append(ps_calls, PsCall("SelectionComplete", "", "", uuid))
    /\ UNCHANGED <<kernelVars, ps_state, complete, profile_select_version>>

(* --------------------------- specifications --------------------------- *)

Next ==
    \/ \E o \in ctx, size \in Sizes, pool \in Pools : InitBegin(o, size, pool)
    \/ \E o \in ctx : InitReserveOk(o)
    \/ \E o \in ctx : InitReserveFail(o)
    \/ \E o \in ctx, addr \in Slots : InitAllocateOk(o, addr)
    \/ \E o \in ctx : InitAllocateZero(o)
    \/ \E o \in ctx, err \in PlatformErrors : InitAllocateFail(o, err)
    \/ \E o \in ctx : InitCheckRc(o)
    \/ \E o \in ctx : InitCleanupFree(o)
    \/ \E o \in ctx : InitCleanupRollback(o)
    \/ \E o \in ctx : InitDynamicPageManager(o)
    \/ \E o \in ctx : InitSlabHeaps(o)
    \/ \E o \in ctx : InitManagers(o)
    \/ \E o \in ctx : InitSetManagers(o)
    \/ \E o \in ctx : InitCommit(o)
    \/ \E o \in ctx : InitOpen(o)
    \/ \E o \in ctx : InitSucceed(o)
    \/ \E o \in ctx, m \in Managers : ManagerAllocate(o, m)
    \/ \E o \in ctx, m \in Managers : ManagerFree(o, m)
    \/ \E o \in ctx : FinalizeBegin(o)
    \/ \E o \in ctx : FinalizeAbort(o)
    \/ \E o \in ctx : FinalizeFree(o)
    \/ \E o \in ctx : FinalizeRelease(o)
    \/ \E o \in ctx : FinalizeClose(o)

\* Objects in independent contexts sharing the limit.
Spec == Init /\ [][Next]_vars

\* A single object against a limit other holders have partly used.
SpecSolo == InitSolo /\ [][Next]_vars

\* A single object whose caller may also call Finalize after a failed
\* Initialize.
NextMisuse ==
    \/ Next
    \/ \E o \in ctx : FinalizeUninitialized(o)

SpecMisuse == InitSolo /\ [][NextMisuse]_vars

\* One object against a limit with room for it and a platform that has the
\* memory it asks for, its region of more than the one page its table
\* takes; its managers and its page manager followed slot by slot and page
\* by page.
HostingSizes == Sizes \ {PageSize}

InitAlloc ==
    /\ ctx = {1}
    /\ initial = 0
    /\ InitObjects
    /\ InitProfileSelect

NextAlloc ==
    \/ \E o \in ctx, size \in HostingSizes, pool \in Pools :
           InitBegin(o, size, pool)
    \/ \E o \in ctx : InitReserveOk(o)
    \/ \E o \in ctx, addr \in Slots : InitAllocateOk(o, addr)
    \/ \E o \in ctx : InitCheckRc(o)
    \/ \E o \in ctx : InitDynamicPageManager(o)
    \/ \E o \in ctx : InitSlabHeaps(o)
    \/ \E o \in ctx : InitManagers(o)
    \/ \E o \in ctx : InitSetManagers(o)
    \/ \E o \in ctx : InitCommit(o)
    \/ \E o \in ctx : InitOpen(o)
    \/ \E o \in ctx : InitSucceed(o)
    \/ \E o \in ctx, m \in Managers : SlabAllocate(o, m)
    \/ \E o \in ctx, m \in Managers :
           \E slot \in held[o][m] : SlabFree(o, m, slot)
    \/ \E o \in ctx : PageAllocate(o)
    \/ \E o \in ctx : \E page \in client[o] : PageFree(o, page)
    \/ \E o \in ctx : FinalizeBegin(o)
    \/ \E o \in ctx : FinalizeAbort(o)
    \/ \E o \in ctx : FinalizeFree(o)
    \/ \E o \in ctx : FinalizeRelease(o)
    \/ \E o \in ctx : FinalizeClose(o)

SpecAlloc == InitAlloc /\ [][NextAlloc]_vars

\* The profile selection applet, its library applet session and frontend.
NextApplet ==
    \/ \E version \in Versions : PsInitialize(version)
    \/ \E purpose \in Purposes : PsExecute(purpose)
    \/ \E uuid \in OptionalUuids : PsSelectionComplete(uuid)

SpecApplet == Init /\ [][NextApplet]_vars

(* ------------------------- reading the log ---------------------------- *)

Has(o, op) == \E i \in 1..Len(log[o]) : log[o][i].op = op

\* Position of the first entry op of log[o]; 0 when there is none.
IndexOf(o, op) ==
    IF Has(o, op)
    THEN CHOOSE i \in 1..Len(log[o]) :
             /\ log[o][i].op = op
             /\ \A j \in 1..(i - 1) : log[o][j].op # op
    ELSE 0

Entry(o, op) == log[o][IndexOf(o, op)]

\* The calls of the last Initialize, and those of the Finalize after it.
InitCalls(o) ==
    IF Has(o, "Finalize") THEN SubSeq(log[o], 1, IndexOf(o, "Finalize") - 1)
    ELSE log[o]

FinalizeCalls(o) ==
    IF Has(o, "Finalize")
    THEN SubSeq(log[o], IndexOf(o, "Finalize") + 1, Len(log[o]))
    ELSE <<>>

Only(calls, op) == SelectSeq(calls, LAMBDA e : e.op = op)

\* The last Initialize of o has returned a failure.
InitFailed(o) == pc[o] = "failed"

\* The last Initialize of o has returned success.
InitSucceeded(o) == pc[o] \in {"ready", "f_free", "f_release", "f_close", "finalized"}

\* The request of the last Initialize of o was one the limit had room for
\* and whose region exceeds its reference-count table.
ValidRequest(o) ==
    /\ pc[o] # "fresh"
    /\ m_resource_size[o] > RcSize(m_resource_size[o])
    /\ initial + RequiredSecureMemorySize(o) <= LimitMax

(* ------------------------------ claims -------------------------------- *)

C2_LimitReachedNoAction ==
    \A o \in ctx :
        /\ (/\ pc[o] \notin {"fresh", "i_reserve"}
            /\ initial + RequiredSecureMemorySize(o) > LimitMax)
               => /\ pc[o] = "failed"
                  /\ result[o] = "ResultLimitReached"
        /\ result[o] = "ResultLimitReached" =>
               /\ pc[o] = "failed"
               /\ initial + RequiredSecureMemorySize(o) > LimitMax
               /\ log[o] = <<EvAmount("ReserveRefused", RequiredSecureMemorySize(o))>>
               /\ current = initial
               /\ refs = 0
               /\ secure = {}
               /\ reservation[o] = NoReservation
               /\ ~m_is_initialized[o]
               /\ ~managers_set[o]

\* C2 witness: an Initialize was refused by a limit partly used by others.
C2_Witness ==
    \E o \in ctx :
        /\ result[o] = "ResultLimitReached"
        /\ pc[o] = "failed"
        /\ initial > 0
        /\ initial < LimitMax

\* C3 as stated: for every size whose page-aligned reference-count table is
\* >= size, Initialize fails with ResultOutOfMemory and the committed amount
\* is unchanged.
C3_AsStated ==
    \A o \in ctx :
        (InitFailed(o) /\ RcSize(m_resource_size[o]) >= m_resource_size[o]) =>
            /\ result[o] = "ResultOutOfMemory"
            /\ current = initial

\* C3 amended: for every such size Initialize fails and the committed amount
\* after it is the amount before it; the result is ResultOutOfMemory when
\* the reservation was granted and AllocateSecureMemory succeeded (the
\* reservation is then made and rolled back), and ResultLimitReached or the
\* platform's result when one of those two earlier steps failed.
C3_TableTooLargeFails ==
    \A o \in ctx :
        (pc[o] # "fresh" /\ RcSize(m_resource_size[o]) >= m_resource_size[o]) =>
            /\ pc[o] \in {"i_reserve", "i_alloc", "i_check", "i_free",
                          "i_rollback", "failed"}
            /\ pc[o] \in {"i_free", "i_rollback", "failed"} =>
                   /\ result[o] # "ResultSuccess"
                   /\ Has(o, "AllocateSecureMemory")
                          <=> result[o] = "ResultOutOfMemory"
                   /\ Has(o, "ReserveRefused")
                          <=> result[o] = "ResultLimitReached"
                   /\ Has(o, "AllocateSecureMemoryFailed")
                          <=> result[o] \in PlatformErrors
            /\ InitFailed(o) =>
                   /\ current = initial
                   /\ Has(o, "Reserve") <=> Has(o, "Rollback")
                   /\ ~m_is_initialized[o]

\* C3 witness: a one-page request, whose table is a page too, failed with
\* ResultOutOfMemory after its reservation was made and rolled back.
C3_Witness ==
    \E o \in ctx :
        /\ InitFailed(o)
        /\ RcSize(m_resource_size[o]) >= m_resource_size[o]
        /\ result[o] = "ResultOutOfMemory"
        /\ Has(o, "Reserve")
        /\ Has(o, "Rollback")
        /\ current = initial

\* C4: within Initialize FreeSecureMemory is called exactly once, with the
\* allocated address, the original size and the pool, on every failure exit
\* taken after AllocateSecureMemory succeeded, and not at all when Initialize
\* succeeds or fails before the allocation succeeded; a failed Initialize
\* leaves none of its secure memory outstanding.
C4_CleanupFreesExactlyOnce ==
    \A o \in ctx :
        LET frees == Only(InitCalls(o), "FreeSecureMemory")
            alloc == Entry(o, "AllocateSecureMemory")
        IN  /\ Len(frees) <= 1
            /\ Len(frees) = 1 =>
                   /\ Has(o, "AllocateSecureMemory")
                   /\ result[o] \notin {"none", "ResultSuccess"}
                   /\ frees[1].addr = alloc.addr
                   /\ frees[1].size = alloc.size
                   /\ frees[1].pool = alloc.pool
                   /\ frees[1].size = m_resource_size[o]
            /\ InitFailed(o) =>
                   /\ Len(frees) = 1 <=> Has(o, "AllocateSecureMemory")
                   /\ \A a \in secure : a.owner # o
            /\ InitSucceeded(o) => Len(frees) = 0

\* C4 witness: an Initialize whose secure_size exceeds its size failed after
\* its allocation and freed it once.
C4_Witness ==
    \E o \in ctx :
        /\ InitFailed(o)
        /\ Has(o, "AllocateSecureMemory")
        /\ Len(Only(InitCalls(o), "FreeSecureMemory")) = 1
        /\ RequiredSecureMemorySize(o) > m_resource_size[o]

\* C5: if AllocateSecureMemory fails, Initialize returns that result
\* unchanged, the provisional reservation is subtracted back out (committed
\* amount as before the call), FreeSecureMemory is not called and no
\* reference is opened.
C5_AllocationFailurePropagated ==
    \A o \in ctx :
        Has(o, "AllocateSecureMemoryFailed") =>
            /\ pc[o] \in {"i_rollback", "failed"}
            /\ result[o] = Entry(o, "AllocateSecureMemoryFailed").err
            /\ result[o] \in PlatformErrors
            /\ ~Has(o, "FreeSecureMemory")
            /\ ~Has(o, "Open")
            /\ ~Has(o, "Commit")
            /\ refs = 0
            /\ secure = {}
            /\ ~m_is_initialized[o]
            /\ pc[o] = "i_rollback" =>
                   current = initial + Entry(o, "Reserve").amount
            /\ InitFailed(o) =>
                   /\ current = initial
                   /\ Has(o, "Rollback")
                   /\ Entry(o, "Rollback").amount = Entry(o, "Reserve").amount

\* C5 witness: an Initialize returned the platform's second failure result
\* after reserving against a limit others use.
C5_Witness ==
    \E o \in ctx :
        /\ InitFailed(o)
        /\ Has(o, "AllocateSecureMemoryFailed")
        /\ result[o] = "ResultPlatformB"
        /\ initial > 0
        /\ current = initial

\* C6: Finalize called while a slab manager reports GetUsed() > 0 aborts at
\* the assertion and reaches neither FreeSecureMemory nor Release nor Close;
\* secure memory is never freed while an allocation from its managers is
\* outstanding.
C6_FinalizeAbortsOnOutstanding ==
    /\ aborted.why = "OutstandingAllocations" =>
           /\ TotalUsed(aborted.by) > 0
           /\ pc[aborted.by] = "ready"
           /\ FinalizeCalls(aborted.by) = <<>>
    /\ \A o \in ctx :
           (\E m \in Managers : used[o][m] > 0) =>
               /\ pc[o] = "ready"
               /\ ~Has(o, "Release")
               /\ ~Has(o, "Close")
               /\ Only(FinalizeCalls(o), "FreeSecureMemory") = <<>>
               /\ \E a \in secure :
                      /\ a.owner = o
                      /\ a.addr = m_resource_address[o]
               /\ refs >= 1
               /\ current >= RequiredSecureMemorySize(o)

\* C6 witness: Finalize aborted on an outstanding page table alone.
C6_Witness ==
    /\ aborted.why = "OutstandingAllocations"
    /\ used[aborted.by]["page_table"] > 0
    /\ used[aborted.by]["memory_block"] = 0
    /\ used[aborted.by]["block_info"] = 0

\* C7: for every successfully initialized object the amount Finalize
\* releases equals the amount Initialize reserved and committed, also when
\* it is larger than size, and the (size, pool) Finalize passes to
\* FreeSecureMemory are those Initialize passed to AllocateSecureMemory.
C7_ReleaseMatchesReserve ==
    \A o \in ctx :
        /\ Has(o, "Release") =>
               /\ Entry(o, "Release").amount = Entry(o, "Reserve").amount
               /\ Entry(o, "Release").amount = Entry(o, "Commit").amount
        /\ Only(FinalizeCalls(o), "FreeSecureMemory") # <<>> =>
               LET free == Only(FinalizeCalls(o), "FreeSecureMemory")[1]
                   alloc == Entry(o, "AllocateSecureMemory")
               IN  /\ free.size = alloc.size
                   /\ free.pool = alloc.pool

\* C7 witness: an object whose secure_size exceeds its size has released.
C7_Witness ==
    \E o \in ctx :
        /\ Has(o, "Release")
        /\ Entry(o, "Release").amount > m_resource_size[o]
        /\ Only(FinalizeCalls(o), "FreeSecureMemory") # <<>>

\* The positions at which o holds a reservation, provisional or committed,
\* that has not been rolled back or released.
Holding(o) ==
    pc[o] \in {"i_alloc", "i_check", "i_free", "i_rollback", "i_dpm",
               "i_heaps", "i_managers", "i_publish", "i_commit", "i_open",
               "i_done", "ready", "f_free", "f_release"}

RECURSIVE SumHeld(_)
SumHeld(S) ==
    IF S = {} THEN 0
    ELSE LET o == CHOOSE x \in S : TRUE
         IN  (IF Holding(o) THEN RequiredSecureMemorySize(o) ELSE 0)
                 + SumHeld(S \ {o})

\* C8: under every interleaving of the Initialize and Finalize steps of
\* objects sharing one limit, the committed amount never exceeds the maximum
\* and equals the sum of secure_size over the objects holding a provisional
\* or committed, not yet released, reservation.
C8_LimitAccounting ==
    /\ current <= LimitMax
    /\ current = SumHeld(ctx)

\* C8 witness: one object holds a provisional reservation while the other
\* holds a committed one, and a third request of that size would not fit.
C8_Witness ==
    \E o \in ctx, p \in ctx :
        /\ o # p
        /\ reservation[o].state = "provisional"
        /\ pc[p] = "ready"
        /\ current = RequiredSecureMemorySize(o) + RequiredSecureMemorySize(p)
        /\ current + RequiredSecureMemorySize(o) > LimitMax

\* References o has opened on the limit and not closed.
Opened(o) == Len(Only(log[o], "Open")) - Len(Only(log[o], "Close"))

RECURSIVE SumOpened(_)
SumOpened(S) ==
    IF S = {} THEN 0
    ELSE LET o == CHOOSE x \in S : TRUE IN Opened(o) + SumOpened(S \ {o})

\* C9: Initialize opens exactly one reference on the limit and only when it
\* succeeds, a failed Initialize opens none, Finalize closes exactly one: the
\* object holds 1 reference while initialized and not yet finalized, else 0.
C9_OpenCloseBalance ==
    /\ refs = SumOpened(ctx)
    /\ \A o \in ctx :
        /\ Opened(o) \in {0, 1}
        /\ Len(Only(log[o], "Open")) <= 1
        /\ Len(Only(log[o], "Close")) <= 1
        /\ Opened(o) = 1 <=>
               pc[o] \in {"i_done", "ready", "f_free", "f_release", "f_close"}
        /\ pc[o] \in {"i_free", "i_rollback", "failed"} => ~Has(o, "Open")
        /\ pc[o] \in {"fresh", "failed", "ready", "finalized"} =>
               (Opened(o) = 1 <=> (m_is_initialized[o] /\ pc[o] # "finalized"))
        /\ pc[o] = "finalized" => Len(Only(log[o], "Close")) = 1

\* C9 witness: one object finalized, the other initialized, one reference.
C9_Witness ==
    \E o \in ctx, p \in ctx :
        /\ pc[o] = "finalized"
        /\ pc[p] = "ready"
        /\ refs = 1

InitOrder ==
    <<"Reserve", "AllocateSecureMemory", "DynamicPageManagerInitialize",
      "SlabHeapsInitialize", "ManagersInitialize", "SetManagers", "Commit",
      "Open", "SetInitialized">>

\* The steps of InitOrder the last Initialize of o has taken, in order.
StepsTaken(o) ==
    LET calls == InitCalls(o)
        names == [i \in 1..Len(calls) |-> calls[i].op]
    IN  SelectSeq(names, LAMBDA n : \E i \in 1..Len(InitOrder) : InitOrder[i] = n)

IsPrefix(s, t) ==
    /\ Len(s) <= Len(t)
    /\ \A i \in 1..Len(s) : s[i] = t[i]

\* C10: Initialize takes its steps in the order reserve, allocate, dynamic
\* page manager, slab heaps, managers, publish, Commit, Open, set
\* initialized; Commit is reached only when no failure exit remains: no
\* failing Initialize has committed and no succeeding one has rolled back.
C10_InitializeOrder ==
    \A o \in ctx :
        /\ IsPrefix(StepsTaken(o), InitOrder)
        /\ InitSucceeded(o) =>
               /\ StepsTaken(o) = InitOrder
               /\ Only(InitCalls(o), "Rollback") = <<>>
        /\ pc[o] \in {"i_free", "i_rollback", "failed"} => ~Has(o, "Commit")
        /\ Has(o, "Commit") =>
               /\ pc[o] \in {"i_open", "i_done"} \/ InitSucceeded(o)
               /\ result[o] \in {"none", "ResultSuccess"}

\* C10 witness: Initialize has just committed, every layout step behind it.
C10_Witness ==
    \E o \in ctx :
        /\ pc[o] = "i_open"
        /\ StepsTaken(o) = SubSeq(InitOrder, 1, 7)
        /\ reservation[o].state = "committed"

\* C12: the Dynamic Page Manager is initialized over exactly
\* [base + rc_size, base + size), rc_size the reference-count table size of
\* size aligned up to PageSize; its length size - rc_size is strictly
\* positive and the range does not overlap the table [base, base + rc_size).
C12_DynamicPageManagerRange ==
    \A o \in ctx :
        Has(o, "DynamicPageManagerInitialize") =>
            LET base == Entry(o, "AllocateSecureMemory").addr
                size == Entry(o, "AllocateSecureMemory").size
                rc_size == AlignUp((size \div PageSize) * RefCountBytes, PageSize)
            IN  /\ dpm[o].addr = base + rc_size
                /\ dpm[o].addr + dpm[o].size = base + size
                /\ dpm[o].size = size - rc_size
                /\ dpm[o].size > 0
                /\ rc_size > 0
                /\ dpm[o].addr >= base + rc_size
                /\ dpm[o].addr % PageSize = 0
                /\ dpm[o].size % PageSize = 0

\* C12 witness: a three-page region, inflated to four by its pool, has its
\* page manager over the last two pages.
C12_Witness ==
    \E o \in ctx :
        /\ Has(o, "DynamicPageManagerInitialize")
        /\ m_resource_size[o] = 3 * PageSize
        /\ RequiredSecureMemorySize(o) > m_resource_size[o]
        /\ dpm[o].size = 2 * PageSize

\* C13: if AllocateSecureMemory reports success with base address 0,
\* Initialize aborts at the assertion, neither continuing nor returning;
\* wherever the initialized flag is set the stored base address is non-zero.
C13_ZeroAddressAborts ==
    \A o \in ctx :
        /\ m_is_initialized[o] => m_resource_address[o] # 0
        /\ (/\ Has(o, "AllocateSecureMemory")
            /\ Entry(o, "AllocateSecureMemory").addr = 0) =>
               /\ aborted = [why |-> "AddressZero", by |-> o]
               /\ pc[o] = "i_alloc"
               /\ result[o] = "none"
               /\ Len(log[o]) = 2
        /\ (/\ pc[o] \notin {"fresh", "i_reserve", "i_alloc"}
            /\ Has(o, "AllocateSecureMemory")) =>
               m_resource_address[o] # 0

\* C13 witness: one object is initialized, the other has aborted on a zero
\* address.
C13_Witness ==
    \E o \in ctx, p \in ctx :
        /\ aborted = [why |-> "AddressZero", by |-> o]
        /\ m_resource_address[o] = 0
        /\ m_is_initialized[p]
        /\ m_resource_address[p] # 0

\* C16: at every intermediate state of Initialize, its failure exits
\* included, and of Finalize, an object whose platform secure memory is
\* outstanding is still counted in the limit's committed amount: memory is
\* allocated after the reservation and freed before its rollback or release.
RECURSIVE SumOutstanding(_)
SumOutstanding(S) ==
    IF S = {} THEN 0
    ELSE LET o == CHOOSE x \in S : TRUE
         IN  (IF \E a \in secure : a.owner = o
              THEN CalculateRequiredSecureMemorySize(m_resource_size[o],
                                                     m_resource_pool[o])
              ELSE 0) + SumOutstanding(S \ {o})

C16_MemoryWithinReservation ==
    /\ current >= SumOutstanding(ctx)
    /\ \A o \in ctx :
        (\E a \in secure : a.owner = o) =>
            /\ Has(o, "Reserve")
            /\ IndexOf(o, "Reserve") < IndexOf(o, "AllocateSecureMemory")
            /\ ~Has(o, "Rollback")
            /\ ~Has(o, "Release")
            /\ reservation[o].state = "provisional" \/ Has(o, "Commit")

\* C16 witness: on a failure exit the memory has been freed and the
\* provisional reservation is still in place.
C16_Witness ==
    \E o \in ctx :
        /\ pc[o] = "i_rollback"
        /\ Has(o, "FreeSecureMemory")
        /\ reservation[o].state = "provisional"
        /\ current >= reservation[o].value
        /\ \A a \in secure : a.owner # o

\* C11 as stated: after any failed Initialize the object's attributes
\* (stored size, pool, owning Resource Limit, base address, initialized
\* flag, published managers) equal their values before the call.
C11_AsStated ==
    \A o \in ctx :
        (ctx = {o} /\ pc[o] = "failed") => Attributes(o) = before[o]

\* C11: after any failed Initialize the initialized flag and the published
\* managers equal their values before the call, no secure memory is held
\* and the limit's committed amount and references are as before; the
\* stored size, pool and limit are those of the failed call, and the base
\* address is that of the freed region if the allocation had succeeded, its
\* value before the call otherwise.
C11_FailedInitializeFrame ==
    \A o \in ctx :
        (ctx = {o} /\ pc[o] = "failed") =>
            /\ result[o] \in {"ResultLimitReached", "ResultOutOfMemory"}
                                \cup PlatformErrors
            /\ m_is_initialized[o] = before[o].initialized
            /\ managers_set[o] = before[o].managers
            /\ ~m_is_initialized[o]
            /\ secure = {}
            /\ current = initial
            /\ refs = 0
            /\ m_resource_limit[o]
            /\ m_resource_size[o] \in Sizes
            /\ Has(o, "AllocateSecureMemory") =>
                   /\ m_resource_address[o] = Entry(o, "AllocateSecureMemory").addr
                   /\ m_resource_size[o] = Entry(o, "AllocateSecureMemory").size
                   /\ m_resource_pool[o] = Entry(o, "AllocateSecureMemory").pool
            /\ ~Has(o, "AllocateSecureMemory") =>
                   m_resource_address[o] = before[o].address

\* C11 witness: a second Initialize has failed with OutOfMemory after its
\* allocation, leaving a size and a base address other than those the
\* object held before the call.
C11_Witness ==
    \E o \in ctx :
        /\ ctx = {o}
        /\ pc[o] = "failed"
        /\ result[o] = "ResultOutOfMemory"
        /\ Has(o, "FreeSecureMemory")
        /\ before[o].limit
        /\ before[o].size # m_resource_size[o]
        /\ before[o].address # m_resource_address[o]

\* C17: Finalize leaves the initialized flag, the stored size, pool and base
\* address and the Resource Limit pointer as it found them, the flag still
\* true after the Finalize of an initialized object; and it does not check
\* the flag: called on an object that is not initialized it frees and
\* releases all the same.
C17_FinalizeFrame ==
    \A o \in ctx :
        Has(o, "Finalize") =>
            LET found == Entry(o, "Finalize")
            IN  /\ m_resource_address[o] = found.addr
                /\ m_resource_size[o] = found.size
                /\ m_resource_pool[o] = found.pool
                /\ m_resource_limit[o]
                /\ m_is_initialized[o] = (found.err = "initialized")
                /\ InitSucceeded(o) /\ Only(InitCalls(o), "SetInitialized") # <<>>
                       => m_is_initialized[o]
                /\ aborted.by # o =>
                       pc[o] \in {"f_free", "f_release", "f_close", "finalized"}
                /\ pc[o] \in {"f_release", "f_close", "finalized"} =>
                       /\ Len(Only(FinalizeCalls(o), "FreeSecureMemory")) = 1
                       /\ Only(FinalizeCalls(o), "FreeSecureMemory")[1].addr
                              = found.addr
                /\ pc[o] \in {"f_close", "finalized"} =>
                       /\ Len(Only(FinalizeCalls(o), "Release")) = 1
                       /\ Only(FinalizeCalls(o), "Release")[1].amount
                              = AlignUp(found.size,
                                        IF found.pool = 0 THEN PageSize
                                        ELSE 2 * PageSize)

\* C17 witness: Finalize has run to its end on an object that was never
\* initialized, and has freed and released.
C17_Witness ==
    \E o \in ctx :
        /\ pc[o] = "finalized"
        /\ ~m_is_initialized[o]
        /\ Entry(o, "Finalize").err = "uninitialized"
        /\ Only(FinalizeCalls(o), "FreeSecureMemory") # <<>>
        /\ Only(FinalizeCalls(o), "Release") # <<>>

\* C17 second witness: Finalize has run to its end on an initialized object
\* and the flag is still set.
C17_WitnessInitialized ==
    \E o \in ctx :
        /\ pc[o] = "finalized"
        /\ m_is_initialized[o]
        /\ Entry(o, "Finalize").err = "initialized"

\* What one SelectionComplete(uuid) is to hand to the broker.
RECURSIVE Expected(_)
Expected(cs) ==
    IF cs = <<>> THEN <<>>
    ELSE LET c == Head(cs)
         IN  (IF c.op = "SelectionComplete"
              THEN << [op |-> "PushNormalDataFromApplet",
                       data |-> << IF c.uuid.has_value /\ c.uuid.value # 0
                                   THEN [result |-> "0",
                                         uuid_selected |-> c.uuid.value]
                                   ELSE [result |-> "ResultCancelledByUser",
                                         uuid_selected |-> 0] >>],
                      [op |-> "SignalStateChanged", data |-> <<>>] >>
              ELSE <<>>) \o Expected(Tail(cs))

Cancelled(c) ==
    /\ c.op = "SelectionComplete"
    /\ ~(c.uuid.has_value /\ c.uuid.value # 0)

\* C18: each SelectionComplete pushes exactly one normal-data storage and then
\* signals state changed, in that order; the result pushed is 0 with the
\* selected uuid, status untouched, when the uuid is present and valid,
\* ResultCancelledByUser with the invalid UUID otherwise, status then being
\* ResultCancelledByUser until the next Initialize.
C18_SelectionCompletePushesThenSignals ==
    /\ pushed = Expected(ps_calls)
    /\ status = IF \E i \in 1..Len(ps_calls) : Cancelled(ps_calls[i])
                THEN "ResultCancelledByUser" ELSE "ResultSuccess"

\* C18 witness: a cancelled selection followed by a valid one, status still
\* ResultCancelledByUser.
C18_Witness ==
    /\ Len(ps_calls) >= 4
    /\ \E i \in 1..Len(ps_calls), j \in 1..Len(ps_calls) :
           /\ i < j
           /\ Cancelled(ps_calls[i])
           /\ ps_calls[j].op = "SelectionComplete"
           /\ ps_calls[j].uuid.value = 2
    /\ Len(pushed) = 4
    /\ status = "ResultCancelledByUser"

\* C19: in every state reachable after Initialize, under any sequence of
\* Execute and SelectionComplete, complete is false: TransactionComplete()
\* returns false also after a selection has been delivered, and every
\* Execute takes the frontend.SelectProfile path, never the re-push.
C19_NeverComplete ==
    ps_state = "initialized" =>
        /\ ~complete
        /\ ~TransactionComplete
        /\ \A i \in 1..Len(ps_calls) :
               ps_calls[i].op = "Execute" => ps_calls[i].path = "SelectProfile"

\* C19 witness: a selection was delivered and Execute was called again.
C19_Witness ==
    /\ ps_state = "initialized"
    /\ \E i \in 1..Len(ps_calls), j \in 1..Len(ps_calls) :
           /\ i < j
           /\ ps_calls[i].op = "SelectionComplete"
           /\ ps_calls[i].uuid.has_value
           /\ ps_calls[i].uuid.value # 0
           /\ ps_calls[j].op = "Execute"
           /\ ps_calls[j].path = "SelectProfile"
    /\ ~complete

\* C14: for each of the three slab managers GetUsed() is the number of
\* successful Allocates less the number of Frees at every step; Allocate
\* succeeds while the heap has a free slot or can still obtain a page within
\* the region, and fails with OutOfMemory, GetUsed() unchanged, once neither
\* is so.
C14_UsedCountsAllocations ==
    \A o \in ctx :
        /\ \A m \in Managers :
               pc[o] = "ready" =>
                   /\ used[o][m] = alloc_count[o][m] - free_count[o][m]
                   /\ used[o][m] = Cardinality(held[o][m])
                   /\ used[o][m] >= 0
        /\ last_alloc[o].m # "" =>
               LET request == last_alloc[o]
                   capacity == \/ request.slots > 0
                               \/ request.free > 0
                               \/ request.tail > 0
               IN  /\ request.res \in {"ResultSuccess", "ResultOutOfMemory"}
                   /\ capacity <=> request.res = "ResultSuccess"
                   /\ request.res = "ResultSuccess" =>
                          request.after = request.before + 1
                   /\ request.res = "ResultOutOfMemory" =>
                          request.after = request.before

\* C14 witness: after Allocates and a Free, an Allocate on another manager
\* has failed with OutOfMemory, an object of the first still in use.
C14_Witness ==
    \E o \in ctx :
        /\ pc[o] = "ready"
        /\ last_alloc[o].res = "ResultOutOfMemory"
        /\ last_alloc[o].m = "memory_block"
        /\ alloc_count[o]["page_table"] = 2
        /\ free_count[o]["page_table"] = 1
        /\ used[o]["page_table"] = 1
        /\ used[o]["memory_block"] = 0

\* The pages under the slots of a heap, free or allocated.
C15_HeapPages(o, m) ==
    {slot - (slot % PageSize) :
         slot \in held[o][m] \cup {heaps[o][m][i] : i \in 1..Len(heaps[o][m])}}

\* C15: the Dynamic Page Manager hands out only page-aligned pages inside
\* its own range, never a page that is currently allocated, and serves a
\* request from the free list whenever it is non-empty, taking a page from
\* the unused tail only when the free list is empty.
C15_PagesFromFreeListFirst ==
    \A o \in ctx :
        Has(o, "ManagersInitialize") =>
            LET pm == page_manager[o]
                lo == dpm[o].addr
                hi == dpm[o].addr + dpm[o].size
                freed == {pm.free[i] : i \in 1..Len(pm.free)}
                last == last_page[o]
            IN  /\ \A page \in pm.out \cup freed :
                       /\ page % PageSize = 0
                       /\ lo <= page
                       /\ page + PageSize <= hi
                       /\ page < pm.next
                /\ pm.out \cap freed = {}
                /\ Cardinality(freed) = Len(pm.free)
                /\ pm.out = client[o] \cup UNION {C15_HeapPages(o, m) : m \in Managers}
                /\ \A m \in Managers : client[o] \cap C15_HeapPages(o, m) = {}
                /\ \A m \in Managers, n \in Managers :
                       m # n => C15_HeapPages(o, m) \cap C15_HeapPages(o, n) = {}
                /\ Cardinality(pm.out) + Len(pm.free) = (pm.next - lo) \div PageSize
                /\ last.next # 0 =>
                       /\ last.head # 0 => last.page = last.head
                       /\ last.head = 0 /\ last.next < hi => last.page = last.next
                       /\ last.head = 0 /\ last.next >= hi => last.page = 0

\* C15 witness: a request was served from the free list while the unused
\* tail still had a page.
C15_Witness ==
    \E o \in ctx :
        /\ pc[o] = "ready"
        /\ last_page[o].head # 0
        /\ last_page[o].page = last_page[o].head
        /\ last_page[o].next < dpm[o].addr + dpm[o].size
        /\ last_page[o].page \in page_manager[o].out

====
